---- MODULE Spec2Model ----
(***************************************************************************)
(* The xdb searcher of binding/rust/ip2region2/src/searcher.rs: the        *)
(* two-level lookup of search_by_ip over the bytes handed out by           *)
(* get_full_cache, the process-wide OnceCell cache and the environment     *)
(* variables set by searcher_init.                                         *)
(*                                                                         *)
(* Representation.  A byte buffer is [len, at]: its length and its bytes   *)
(* at the offsets that are not zero.  A u32 address is the tuple of its    *)
(* four octets, most significant first, compared in that order; a usize    *)
(* is a natural number below UsizeMod.                                     *)
(***************************************************************************)
EXTENDS Integers, Sequences, FiniteSets, TLC

HEADER_INFO_LENGTH == 256
VECTOR_INDEX_COLS == 256
VECTOR_INDEX_SIZE == 8
SEGMENT_INDEX_SIZE == 14
VECTOR_INDEX_LENGTH == 512 * 1024

\* Bounds of the model.
NThreads == 2
MaxCalls == 2
MaxWrites == 1
MaxInits == 1
UsizeBits == 26

UsizeMod == 2 ^ UsizeBits
Threads == 1 .. NThreads
Paths == {"p1", "p2"}
Policies == {"Never", "VecIndex", "Full"}
Builds == {"debug", "release"}
\* what a checked operation yields when it panics
PANIC == 0 - 1

(***************************************************************************)
(* Byte buffers.                                                           *)
(***************************************************************************)
NoBuf == [len |-> 0, at |-> <<>>]

ByteAt(buf, o) == IF o \in DOMAIN buf.at THEN buf.at[o] ELSE 0

\* the n bytes of v, least significant first, placed at offset off
LEBytes(off, v, n) == [o \in off .. off + n - 1 |-> (v \div (256 ^ (o - off))) % 256]

\* the four octets of an address, stored least significant first at off
IpBytes(off, ip) == [o \in off .. off + 3 |-> ip[4 - (o - off)]]

SeqBytes(off, s) == [o \in off .. off + Len(s) - 1 |-> s[o - off + 1]]

SegBase == HEADER_INFO_LENGTH + VECTOR_INDEX_LENGTH

CellOffset(il0, il1) == HEADER_INFO_LENGTH + VECTOR_INDEX_SIZE * (il0 * VECTOR_INDEX_COLS + il1)

RECURSIVE Merge(_, _)
Merge(fs, n) == IF n = 0 THEN <<>> ELSE fs[n] @@ Merge(fs, n - 1)

RECURSIVE SumLen(_, _)
SumLen(recs, n) == IF n = 0 THEN 0 ELSE Len(recs[n].p) + SumLen(recs, n - 1)

\* A file with the segment records recs (in order, from SegBase on), their
\* payloads behind them, and the vector index cells; a cell names its first
\* and last record, and last_at is 0 when end_ptr is the offset of the last
\* record and 1 when it is the offset behind it.
MkFile(recs, cells, last_at) ==
    LET n == Len(recs)
        dataBase == SegBase + n * SEGMENT_INDEX_SIZE
        pOff(i) == dataBase + SumLen(recs, i - 1)
        recB(i) ==
            LET o == SegBase + (i - 1) * SEGMENT_INDEX_SIZE
            IN  IpBytes(o, recs[i].s) @@ IpBytes(o + 4, recs[i].e)
                @@ LEBytes(o + 8, Len(recs[i].p), 2) @@ LEBytes(o + 10, pOff(i), 4)
                @@ SeqBytes(pOff(i), recs[i].p)
        cellB(j) ==
            LET c == cells[j]
                o == CellOffset(c.il0, c.il1)
            IN  LEBytes(o, SegBase + (c.first - 1) * SEGMENT_INDEX_SIZE, 4)
                @@ LEBytes(o + 4, SegBase + (c.last - 1 + last_at) * SEGMENT_INDEX_SIZE, 4)
        all == Merge([i \in 1 .. n |-> recB(i)], n)
               @@ Merge([j \in 1 .. Len(cells) |-> cellB(j)], Len(cells))
    IN  [len |-> dataBase + SumLen(recs, n),
         at |-> [o \in {x \in DOMAIN all : all[x] # 0} |-> all[o]]]

Patch(f, bytes) ==
    LET all == bytes @@ f.at
    IN  [len |-> f.len, at |-> [o \in {x \in DOMAIN all : all[x] # 0} |-> all[o]]]

Cells ==
    << [il0 |-> 0, il1 |-> 0, first |-> 1, last |-> 3],
       [il0 |-> 1, il1 |-> 0, first |-> 4, last |-> 4],
       [il0 |-> 255, il1 |-> 255, first |-> 5, last |-> 5] >>

Ranges ==
    << [s |-> <<0, 0, 0, 0>>, e |-> <<0, 0, 0, 255>>],
       [s |-> <<0, 0, 1, 0>>, e |-> <<0, 0, 1, 255>>],
       [s |-> <<0, 0, 3, 0>>, e |-> <<0, 0, 255, 255>>],
       [s |-> <<1, 0, 0, 5>>, e |-> <<1, 0, 0, 9>>],
       [s |-> <<255, 255, 0, 0>>, e |-> <<255, 255, 255, 255>>] >>

Recs(payloads) == [i \in 1 .. Len(Ranges) |-> [s |-> Ranges[i].s, e |-> Ranges[i].e, p |-> payloads[i]]]

\* end_ptr is the offset of the cell's last record
WF1 == MkFile(Recs(<< <<65>>, <<66, 67>>, <<195, 169>>, <<68>>, <<69>> >>), Cells, 0)
\* end_ptr is the offset behind the cell's last record; other payloads
WF2 == MkFile(Recs(<< <<97>>, <<98, 99>>, <<100, 101>>, <<102>>, <<103>> >>), Cells, 1)

(***************************************************************************)
(* State.                                                                  *)
(***************************************************************************)
VARIABLES
    build,          \* overflow checks on (debug) or off (release); fixed per process
    disk,           \* path -> the bytes the file holds now
    xdb_filepath,   \* environment variable XDB_FILEPATH
    cache_policy,   \* environment variable CACHE_POLICY
    cache,          \* the static CACHE: OnceCell<Vec<u8>> of get_full_cache
    th,             \* per thread: position in search_by_ip and its locals
    loads,          \* number of load_file executions
    vecLoads,       \* of these, executions made for get_vector_index_cache under VecIndex
    onlyFull,       \* CACHE_POLICY has been Full since the start
    ncalls, nwrites, ninits

vars == <<build, disk, xdb_filepath, cache_policy, cache, th, loads, vecLoads, onlyFull,
          ncalls, nwrites, ninits>>

Ok(v) == [kind |-> "Ok", msg |-> "", val |-> v]
Err(m) == [kind |-> "Err", msg |-> m, val |-> <<>>]
Panic(m) == [kind |-> "Panic", msg |-> m, val |-> <<>>]
NoResult == [kind |-> "None", msg |-> "", val |-> <<>>]

Idle ==
    [pc |-> "idle", input |-> <<0, 0, 0, 0>>, ip |-> <<0, 0, 0, 0>>,
     start_ptr |-> 0, end_ptr |-> 0, left |-> 0, right |-> 0,
     data_length |-> 0, data_offset |-> 0, result |-> NoResult,
     buf |-> NoBuf, reads |-> 0, qloads |-> 0, iters |-> 0, lastOff |-> -1,
     nonfull |-> TRUE, initing |-> FALSE, sawStale |-> FALSE]

(***************************************************************************)
(* Arithmetic on usize: an overflow panics in a debug build and wraps in a *)
(* release build.                                                          *)
(***************************************************************************)
usub(a, b) == IF a >= b THEN a - b ELSE IF build = "debug" THEN PANIC ELSE a - b + UsizeMod
uadd(a, b) == IF a + b < UsizeMod THEN a + b ELSE IF build = "debug" THEN PANIC ELSE a + b - UsizeMod
umul(a, b) == IF a * b < UsizeMod THEN a * b ELSE IF build = "debug" THEN PANIC ELSE (a * b) % UsizeMod

\* u32 comparison on octet tuples
U32Lt(a, b) ==
    \E i \in 1 .. 4 : a[i] < b[i] /\ \A j \in 1 .. i - 1 : a[j] = b[j]

(***************************************************************************)
(* Byte Decoder.  A slice is [buf, lo, hi]: the bytes lo .. hi-1 of buf.   *)
(***************************************************************************)
Slice(buf, lo, hi) == [buf |-> buf, lo |-> lo, hi |-> hi]

SliceOk(buf, lo, hi) == lo <= hi /\ hi <= buf.len

RECURSIVE OrBytes(_, _, _)
OrBytes(bytes, offset, n) ==
    IF n = 0 THEN 0
    ELSE OrBytes(bytes, offset, n - 1)
         + ByteAt(bytes.buf, bytes.lo + offset + n - 1) * (256 ^ (n - 1))

get_block_by_size(bytes, offset, length) ==
    IF offset + length > bytes.hi - bytes.lo THEN PANIC
    ELSE OrBytes(bytes, offset, length)

\* get_block_by_size(bytes, offset, 4) as u32
get_block_as_u32(bytes, offset) ==
    [i \in 1 .. 4 |-> ByteAt(bytes.buf, bytes.lo + offset + 4 - i)]

(***************************************************************************)
(* String::from_utf8.                                                      *)
(***************************************************************************)
Cont(b) == b >= 128 /\ b <= 191

RECURSIVE Utf8Valid(_, _)
Utf8Valid(s, i) ==
    IF i > Len(s) THEN TRUE
    ELSE LET b == s[i]
             has(k) == i + k <= Len(s)
         IN  IF b < 128 THEN Utf8Valid(s, i + 1)
             ELSE IF b >= 194 /\ b <= 223
                  THEN has(1) /\ Cont(s[i + 1]) /\ Utf8Valid(s, i + 2)
             ELSE IF b >= 224 /\ b <= 239
                  THEN /\ has(2) /\ Cont(s[i + 1]) /\ Cont(s[i + 2])
                       /\ (b = 224 => s[i + 1] >= 160)
                       /\ (b = 237 => s[i + 1] <= 159)
                       /\ Utf8Valid(s, i + 3)
             ELSE IF b >= 240 /\ b <= 244
                  THEN /\ has(3) /\ Cont(s[i + 1]) /\ Cont(s[i + 2]) /\ Cont(s[i + 3])
                       /\ (b = 240 => s[i + 1] >= 144)
                       /\ (b = 244 => s[i + 1] <= 143)
                       /\ Utf8Valid(s, i + 4)
             ELSE FALSE

from_utf8(s) == IF Utf8Valid(s, 1) THEN Ok(s) ELSE Err("FromUtf8Error")

(***************************************************************************)
(* IP Normalizer (crate::ToUIntIP).  An input is a dotted quad.            *)
(***************************************************************************)
to_u32_ip(x) ==
    IF \A i \in 1 .. 4 : x[i] \in 0 .. 255
    THEN [ok |-> TRUE, ip |-> x]
    ELSE [ok |-> FALSE, ip |-> <<0, 0, 0, 0>>]

(***************************************************************************)
(* File Loader and Cache Manager.                                          *)
(***************************************************************************)
load_file == disk[xdb_filepath]

default_detect_xdb_file == "p1"

\* faulty variant: an initialized cell is used whatever the policy
get_full_cache_sticky ==
    IF cache_policy = "Full" \/ cache.state = "init"
    THEN [ready |-> cache.state = "init", buf |-> cache.bytes, nload |-> 0,
          full |-> cache_policy = "Full"]
    ELSE [ready |-> TRUE, buf |-> load_file, nload |-> 1, full |-> FALSE]

\* What one call returns: whether it can return now (a OnceCell that is not
\* initialized makes the caller initialize it or wait), the buffer, and the
\* number of load_file executions the call makes.
get_full_cache ==
    IF cache_policy = "Full"
    THEN [ready |-> cache.state = "init", buf |-> cache.bytes, nload |-> 0, full |-> TRUE]
    ELSE [ready |-> TRUE, buf |-> load_file, nload |-> 1, full |-> FALSE]

\* the locals a thread keeps about its calls of get_full_cache
Read(r, g) ==
    [r EXCEPT !.buf = g.buf, !.reads = @ + 1, !.qloads = @ + g.nload,
              !.nonfull = @ /\ ~g.full,
              !.sawStale = @ \/ g.buf # disk[xdb_filepath]]

get_vector_index_cache(full_cache) ==
    Slice(full_cache, HEADER_INFO_LENGTH, HEADER_INFO_LENGTH + VECTOR_INDEX_LENGTH)

get_start_end_ptr(vector_cache, ip) ==
    LET il0 == ip[1]
        il1 == ip[2]
        idx == VECTOR_INDEX_SIZE * (il0 * VECTOR_INDEX_COLS + il1)
    IN  << get_block_by_size(vector_cache, idx, 4),
           get_block_by_size(vector_cache, idx + 4, 4) >>

(***************************************************************************)
(* Inputs.                                                                 *)
(***************************************************************************)
BadInput == <<999, 999, 999, 999>>

Inputs == { <<0, 0, 0, 0>>, BadInput }

DiskFiles == {WF1, WF2}

SearchInputs ==
    { <<0, 0, 0, 0>>, <<0, 0, 0, 255>>, <<0, 0, 1, 7>>, <<0, 0, 2, 0>>, <<0, 0, 255, 255>>,
      <<1, 0, 0, 1>>, <<1, 0, 0, 5>>, <<1, 0, 0, 10>>, <<255, 255, 255, 255>>, BadInput }

Truncate(f, n) == [len |-> n, at |-> [o \in {x \in DOMAIN f.at : x < n} |-> f.at[o]]]

\* the file ends inside the vector index
CF_short == Truncate(WF1, SegBase - 1)
\* the file ends inside the third segment record
CF_rec == Truncate(WF1, SegBase + 2 * SEGMENT_INDEX_SIZE + 5)
\* the cell of 0.0.x.x points behind the end of the file
CF_cell ==
    Patch(WF1, LEBytes(CellOffset(0, 0), WF1.len + 100, 4)
               @@ LEBytes(CellOffset(0, 0) + 4, WF1.len + 100 + 2 * SEGMENT_INDEX_SIZE, 4))
\* the first record's data_ptr + data_length ends behind the end of the file
CF_data == Patch(WF1, LEBytes(SegBase + 10, WF1.len, 4))
\* the cell of 1.0.x.x has end_ptr < start_ptr
CF_rev == Patch(WF1, LEBytes(CellOffset(1, 0) + 4, SegBase + 2 * SEGMENT_INDEX_SIZE, 4))
\* the first record's payload is not UTF-8
CF_utf8 == Patch(WF1, SeqBytes(SegBase + Len(Ranges) * SEGMENT_INDEX_SIZE, <<255>>))

SearchFiles == {WF1, WF2, CF_short, CF_rec, CF_cell, CF_data, CF_rev, CF_utf8}

(***************************************************************************)
(* Init: the process after searcher_init(None, policy).                     *)
(***************************************************************************)
Init ==
    /\ build \in Builds
    /\ disk = [path \in Paths |-> IF path = "p1" THEN WF1 ELSE WF2]
    /\ xdb_filepath = default_detect_xdb_file
    /\ cache_policy \in Policies
    /\ cache = [state |-> "uninit", bytes |-> NoBuf]
    /\ th = [t \in Threads |-> Idle]
    /\ loads = 0
    /\ vecLoads = 0
    /\ onlyFull = (cache_policy = "Full")
    /\ ncalls = 0
    /\ nwrites = 0
    /\ ninits = 0

(***************************************************************************)
(* search_by_ip, one step per call of get_full_cache.                      *)
(***************************************************************************)
Done(r, res) == [r EXCEPT !.pc = "done", !.result = res]

\* faulty variant: the file is loaded before the address is looked at
search_by_ip_call_eager(t, x) ==
    /\ th[t].pc = "idle"
    /\ ncalls < MaxCalls
    /\ ncalls' = ncalls + 1
    /\ loads' = loads + 1
    /\ LET n == to_u32_ip(x)
           r == [Idle EXCEPT !.input = x, !.buf = load_file, !.qloads = 1]
       IN  th' = [th EXCEPT ![t] = IF n.ok THEN [r EXCEPT !.pc = "vec", !.ip = n.ip]
                                   ELSE Done(r, Err("InvalidIpFormat"))]
    /\ UNCHANGED <<build, disk, xdb_filepath, cache_policy, cache, vecLoads,
                   onlyFull, nwrites, ninits>>

\* line 33: the normalizer, and the error it returns
search_by_ip_call(t, x) ==
    /\ th[t].pc = "idle"
    /\ ncalls < MaxCalls
    /\ ncalls' = ncalls + 1
    /\ LET n == to_u32_ip(x)
           r == [Idle EXCEPT !.input = x]
       IN  th' = [th EXCEPT ![t] = IF n.ok THEN [r EXCEPT !.pc = "vec", !.ip = n.ip]
                                   ELSE Done(r, Err("InvalidIpFormat"))]
    /\ UNCHANGED <<build, disk, xdb_filepath, cache_policy, cache, loads, vecLoads,
                   onlyFull, nwrites, ninits>>

\* faulty variants of line 36: the last record left out, one record too many
InitRight_short(diff) == diff \div SEGMENT_INDEX_SIZE - 1

InitRight_long(diff) == diff \div SEGMENT_INDEX_SIZE + 1

\* line 36: the initial right bound from end_ptr - start_ptr
InitRight(diff) == diff \div SEGMENT_INDEX_SIZE

\* lines 34-36 on the buffer that get_full_cache returned
GetPtrs(r, buf) ==
    IF ~SliceOk(buf, HEADER_INFO_LENGTH, HEADER_INFO_LENGTH + VECTOR_INDEX_LENGTH)
    THEN Done(r, Panic("range end index out of range"))
    ELSE LET p == get_start_end_ptr(get_vector_index_cache(buf), r.ip)
             d == usub(p[2], p[1])
         IN  IF d = PANIC
             THEN Done([r EXCEPT !.start_ptr = p[1], !.end_ptr = p[2]],
                       Panic("attempt to subtract with overflow"))
             ELSE [r EXCEPT !.pc = "loop", !.start_ptr = p[1], !.end_ptr = p[2],
                            !.left = 0, !.right = InitRight(d)]

search_get_ptrs(t) ==
    LET r == th[t]
        g == get_full_cache
    IN  /\ r.pc = "vec"
        /\ ~r.initing
        /\ g.ready
        /\ loads' = loads + g.nload
        /\ vecLoads' = vecLoads + (IF cache_policy = "VecIndex" THEN g.nload ELSE 0)
        /\ th' = [th EXCEPT ![t] = GetPtrs(Read(r, g), g.buf)]
        /\ UNCHANGED <<build, disk, xdb_filepath, cache_policy, cache, onlyFull,
                       ncalls, nwrites, ninits>>

\* lines 39-40: the midpoint and its offset, PANIC on a checked overflow
MidOf(r) ==
    LET sum == uadd(r.left, r.right)
    IN  IF sum = PANIC THEN PANIC ELSE sum \div 2

OffsetOf(r, mid) ==
    LET m == umul(mid, SEGMENT_INDEX_SIZE)
    IN  IF m = PANIC THEN PANIC ELSE uadd(r.start_ptr, m)

\* the thread is in the loop and reaches the get_full_cache of line 41
AtProbe(r) ==
    /\ r.pc = "loop"
    /\ r.left <= r.right
    /\ MidOf(r) # PANIC
    /\ OffsetOf(r, MidOf(r)) # PANIC

\* lines 41-52 on the buffer that get_full_cache returned
Probe(r, buf) ==
    LET mid == MidOf(r)
        offset == OffsetOf(r, mid)
        hi == uadd(offset, SEGMENT_INDEX_SIZE)
    IN  IF hi = PANIC THEN Done(r, Panic("attempt to add with overflow"))
        ELSE IF ~SliceOk(buf, offset, hi) THEN Done(r, Panic("range end index out of range"))
        ELSE LET buffer_ip_value == Slice(buf, offset, hi)
                 start_ip == get_block_as_u32(buffer_ip_value, 0)
                 end_ip == get_block_as_u32(buffer_ip_value, 4)
                 r2 == [r EXCEPT !.lastOff = offset, !.iters = @ + 1]
             IN  IF U32Lt(r.ip, start_ip)
                 THEN LET m == usub(mid, 1)
                      IN  IF m = PANIC
                          THEN Done(r2, Panic("attempt to subtract with overflow"))
                          ELSE [r2 EXCEPT !.right = m]
                 ELSE IF U32Lt(end_ip, r.ip)
                 THEN LET m == uadd(mid, 1)
                      IN  IF m = PANIC
                          THEN Done(r2, Panic("attempt to add with overflow"))
                          ELSE [r2 EXCEPT !.left = m]
                 ELSE [r2 EXCEPT !.pc = "data",
                                 !.data_length = get_block_by_size(buffer_ip_value, 8, 2),
                                 !.data_offset = get_block_by_size(buffer_ip_value, 10, 4)]

\* lines 38-49 and 54: one iteration of the loop, or its exit
search_loop(t) ==
    LET r == th[t]
    IN  /\ r.pc = "loop"
        /\ ~r.initing
        /\ IF r.left > r.right
           THEN /\ th' = [th EXCEPT ![t] = Done(r, Err("not matched"))]
                /\ UNCHANGED loads
           ELSE IF ~AtProbe(r)
           THEN /\ th' = [th EXCEPT ![t] =
                       Done(r, Panic(IF MidOf(r) = PANIC THEN "attempt to add with overflow"
                                     ELSE "attempt to multiply with overflow"))]
                /\ UNCHANGED loads
           ELSE LET g == get_full_cache
                IN  /\ g.ready
                    /\ loads' = loads + g.nload
                    /\ th' = [th EXCEPT ![t] = Probe(Read(r, g), g.buf)]
        /\ UNCHANGED <<build, disk, xdb_filepath, cache_policy, cache, vecLoads, onlyFull,
                       ncalls, nwrites, ninits>>

\* lines 50-51 on the buffer that get_full_cache returned
Payload(r, buf) ==
    LET hi == uadd(r.data_offset, r.data_length)
    IN  IF hi = PANIC THEN Done(r, Panic("attempt to add with overflow"))
        ELSE IF ~SliceOk(buf, r.data_offset, hi)
        THEN Done(r, Panic("range end index out of range"))
        ELSE Done(r, from_utf8([i \in 1 .. r.data_length |-> ByteAt(buf, r.data_offset + i - 1)]))

\* faulty variant: the payload is cut from the buffer the loop got last
search_payload_reuse(t) ==
    LET r == th[t]
    IN  /\ r.pc = "data"
        /\ ~r.initing
        /\ th' = [th EXCEPT ![t] = Payload(r, r.buf)]
        /\ UNCHANGED <<build, disk, xdb_filepath, cache_policy, cache, loads, vecLoads,
                       onlyFull, ncalls, nwrites, ninits>>

search_payload(t) ==
    LET r == th[t]
        g == get_full_cache
    IN  /\ r.pc = "data"
        /\ ~r.initing
        /\ g.ready
        /\ loads' = loads + g.nload
        /\ th' = [th EXCEPT ![t] = Payload(Read(r, g), g.buf)]
        /\ UNCHANGED <<build, disk, xdb_filepath, cache_policy, cache, vecLoads, onlyFull,
                       ncalls, nwrites, ninits>>

\* the call returns (or unwinds) to its caller
search_return(t) ==
    /\ th[t].pc = "done"
    /\ th' = [th EXCEPT ![t] = Idle]
    /\ UNCHANGED <<build, disk, xdb_filepath, cache_policy, cache, loads, vecLoads,
                   onlyFull, ncalls, nwrites, ninits>>

(***************************************************************************)
(* CACHE.get_or_init(|| load_file()): the caller that finds the cell       *)
(* uninitialized runs the closure, every other caller waits for it.        *)
(***************************************************************************)
CallsCache(r) == r.pc \in {"vec", "data"} \/ AtProbe(r)

\* what the caller does with the buffer of the call it is in
Continue(r, g) ==
    IF r.pc = "vec" THEN GetPtrs(Read(r, g), g.buf)
    ELSE IF r.pc = "loop" THEN Probe(Read(r, g), g.buf)
    ELSE Payload(Read(r, g), g.buf)

\* faulty variant: a second caller runs the closure too
get_or_init_begin_racy(t) ==
    /\ CallsCache(th[t])
    /\ ~th[t].initing
    /\ cache_policy = "Full"
    /\ cache.state # "init"
    /\ cache' = [cache EXCEPT !.state = "running"]
    /\ th' = [th EXCEPT ![t].initing = TRUE]
    /\ UNCHANGED <<build, disk, xdb_filepath, cache_policy, loads, vecLoads, onlyFull,
                   ncalls, nwrites, ninits>>

get_or_init_begin(t) ==
    /\ CallsCache(th[t])
    /\ ~th[t].initing
    /\ cache_policy = "Full"
    /\ cache.state = "uninit"
    /\ cache' = [cache EXCEPT !.state = "running"]
    /\ th' = [th EXCEPT ![t].initing = TRUE]
    /\ UNCHANGED <<build, disk, xdb_filepath, cache_policy, loads, vecLoads, onlyFull,
                   ncalls, nwrites, ninits>>

\* the closure has run: the cell holds the loaded bytes, get_full_cache
\* returns them and the caller goes on with them
get_or_init_finish(t) ==
    LET g == [ready |-> TRUE, buf |-> load_file, nload |-> 1, full |-> TRUE]
    IN  /\ th[t].initing
        /\ cache' = [state |-> "init", bytes |-> g.buf]
        /\ loads' = loads + g.nload
        /\ th' = [th EXCEPT ![t] = [Continue(th[t], g) EXCEPT !.initing = FALSE]]
        /\ UNCHANGED <<build, disk, xdb_filepath, cache_policy, vecLoads, onlyFull,
                       ncalls, nwrites, ninits>>

(***************************************************************************)
(* searcher_init and the file system.                                      *)
(***************************************************************************)
\* faulty variant: a new configuration drops the cached bytes
searcher_init_reset(path, policy) ==
    /\ \A t \in Threads : th[t].pc = "idle"
    /\ ninits < MaxInits
    /\ ninits' = ninits + 1
    /\ xdb_filepath' = (IF path = "None" THEN default_detect_xdb_file ELSE path)
    /\ cache_policy' = (IF policy = "None" THEN "Full" ELSE policy)
    /\ onlyFull' = (onlyFull /\ cache_policy' = "Full")
    /\ cache' = [state |-> "uninit", bytes |-> NoBuf]
    /\ UNCHANGED <<build, disk, th, loads, vecLoads, ncalls, nwrites>>

\* lines 98-110; the configuration is set between queries, not during one
searcher_init(path, policy) ==
    /\ \A t \in Threads : th[t].pc = "idle"
    /\ ninits < MaxInits
    /\ ninits' = ninits + 1
    /\ xdb_filepath' = (IF path = "None" THEN default_detect_xdb_file ELSE path)
    /\ cache_policy' = (IF policy = "None" THEN "Full" ELSE policy)
    /\ onlyFull' = (onlyFull /\ cache_policy' = "Full")
    /\ UNCHANGED <<build, disk, cache, th, loads, vecLoads, ncalls, nwrites>>

\* another process replaces the file that XDB_FILEPATH names
disk_write(f) ==
    /\ nwrites < MaxWrites
    /\ nwrites' = nwrites + 1
    /\ disk[xdb_filepath] # f
    /\ disk' = [disk EXCEPT ![xdb_filepath] = f]
    /\ UNCHANGED <<build, xdb_filepath, cache_policy, cache, th, loads, vecLoads, onlyFull,
                   ncalls, ninits>>

Next ==
    \/ \E t \in Threads, x \in Inputs : search_by_ip_call(t, x)
    \/ \E t \in Threads : search_get_ptrs(t)
    \/ \E t \in Threads : search_loop(t)
    \/ \E t \in Threads : search_payload(t)
    \/ \E t \in Threads : search_return(t)
    \/ \E t \in Threads : get_or_init_begin(t)
    \/ \E t \in Threads : get_or_init_finish(t)
    \/ \E path \in Paths \cup {"None"}, policy \in Policies \cup {"None"} : searcher_init(path, policy)
    \/ \E f \in DiskFiles : disk_write(f)

Spec == Init /\ [][Next]_vars

(***************************************************************************)
(* The searcher alone: one thread, any of the files, the file and the      *)
(* configuration left as they are.                                         *)
(***************************************************************************)
InitSearch ==
    /\ build \in Builds
    /\ \E f \in SearchFiles : disk = [path \in Paths |-> f]
    /\ xdb_filepath = default_detect_xdb_file
    /\ cache_policy \in Policies
    /\ cache = [state |-> "uninit", bytes |-> NoBuf]
    /\ th = [t \in Threads |-> Idle]
    /\ loads = 0
    /\ vecLoads = 0
    /\ onlyFull = (cache_policy = "Full")
    /\ ncalls = 0
    /\ nwrites = 0
    /\ ninits = 0

NextSearch ==
    \/ \E x \in SearchInputs : search_by_ip_call(1, x)
    \/ search_get_ptrs(1)
    \/ search_loop(1)
    \/ search_payload(1)
    \/ search_return(1)
    \/ get_or_init_begin(1)
    \/ get_or_init_finish(1)

SpecSearch == InitSearch /\ [][NextSearch]_vars

(***************************************************************************)
(* The xdb layout as the searcher decodes it, for stating the properties.  *)
(***************************************************************************)
CellPtrs(b, ip) == get_start_end_ptr(get_vector_index_cache(b), ip)

\* the index of the record at end_ptr, counted from the record at start_ptr
LastIndex(b, ip) == (CellPtrs(b, ip)[2] - CellPtrs(b, ip)[1]) \div SEGMENT_INDEX_SIZE

RecordAt(b, ip, k) ==
    LET o == CellPtrs(b, ip)[1] + k * SEGMENT_INDEX_SIZE
        rec == Slice(b, o, o + SEGMENT_INDEX_SIZE)
    IN  [off |-> o,
         s |-> get_block_as_u32(rec, 0),
         e |-> get_block_as_u32(rec, 4),
         dlen |-> get_block_by_size(rec, 8, 2),
         dptr |-> get_block_by_size(rec, 10, 4)]

PayloadOf(b, rec) == [i \in 1 .. rec.dlen |-> ByteAt(b, rec.dptr + i - 1)]

RecordInBounds(b, rec) ==
    /\ rec.off + SEGMENT_INDEX_SIZE <= b.len
    /\ rec.dptr + rec.dlen <= b.len

\* the records 0 .. m of the cell of ip are as section 3 of the spec wants them
WellFormedCell(b, ip, m) ==
    /\ b.len >= SegBase
    /\ CellPtrs(b, ip)[1] <= CellPtrs(b, ip)[2]
    /\ (CellPtrs(b, ip)[2] - CellPtrs(b, ip)[1]) % SEGMENT_INDEX_SIZE = 0
    /\ m >= 0
    /\ \A k \in 0 .. m :
         LET rec == RecordAt(b, ip, k)
         IN  /\ RecordInBounds(b, rec)
             /\ ~U32Lt(rec.e, rec.s)
             /\ Utf8Valid(PayloadOf(b, rec), 1)
             /\ k < m => U32Lt(rec.e, RecordAt(b, ip, k + 1).s)

Covers(rec, ip) == ~U32Lt(ip, rec.s) /\ ~U32Lt(rec.e, ip)

\* an offset or length the search of ip can decode points behind the end of b
PointsPastEnd(b, ip) ==
    \/ b.len < SegBase
    \/ CellPtrs(b, ip)[1] + SEGMENT_INDEX_SIZE > b.len
    \/ \E k \in 0 .. LastIndex(b, ip) : ~RecordInBounds(b, RecordAt(b, ip, k))

\* thread t has finished a query whose address the normalizer accepted
Looked(t) == th[t].pc = "done" /\ to_u32_ip(th[t].input).ok

TheFile == disk[xdb_filepath]

(***************************************************************************)
(* Properties of the searcher (SpecSearch).                                *)
(***************************************************************************)

\* C1: on a well-formed buffer, an address covered by a record [s, e] of its
\* cell's slice gets that record's payload as Ok, for every address of the
\* closed range, 0.0.0.0 and 255.255.255.255 included, with no fault.  The
\* slice is taken both ways: ending before the record at end_ptr, and
\* ending with it.
C1_CoveredAddressGetsPayload ==
    \A t \in Threads :
        Looked(t) =>
            \A m \in {LastIndex(TheFile, th[t].ip) - 1, LastIndex(TheFile, th[t].ip)} :
                WellFormedCell(TheFile, th[t].ip, m) =>
                    \A k \in 0 .. m :
                        Covers(RecordAt(TheFile, th[t].ip, k), th[t].ip) =>
                            th[t].result = Ok(PayloadOf(TheFile, RecordAt(TheFile, th[t].ip, k)))

C1_Witness ==
    \E t \in Threads :
        /\ Looked(t)
        /\ th[t].ip = <<255, 255, 255, 255>>
        /\ WellFormedCell(TheFile, th[t].ip, LastIndex(TheFile, th[t].ip))
        /\ Covers(RecordAt(TheFile, th[t].ip, 0), th[t].ip)
        /\ RecordAt(TheFile, th[t].ip, 0).e = th[t].ip
        /\ th[t].result.kind = "Ok"

\* C3 (as claimed): an address that no record of its cell covers ends with
\* the NotFound error, also when the midpoint is record 0 and the address is
\* below its start_ip.
C3_GapEndsNotFound ==
    \A t \in Threads :
        ( /\ Looked(t)
          /\ WellFormedCell(TheFile, th[t].ip, LastIndex(TheFile, th[t].ip))
          /\ \A k \in 0 .. LastIndex(TheFile, th[t].ip) :
                 ~Covers(RecordAt(TheFile, th[t].ip, k), th[t].ip) )
        => th[t].result = Err("not matched")

\* C6 (as claimed): when an offset or length decoded from the buffer points
\* behind its end, the query returns an error value and does not end in a
\* fault.
C6_OutOfBoundsIsReported ==
    \A t \in Threads :
        (Looked(t) /\ PointsPastEnd(TheFile, th[t].ip)) => th[t].result.kind # "Panic"

C2_FullLoadsOnce ==
    onlyFull =>
        /\ loads <= 1
        /\ \A t \in Threads :
             th[t].reads > 0 =>
                 /\ loads = 1
                 /\ cache.state = "init"
                 /\ th[t].buf = cache.bytes

C2_Witness ==
    /\ onlyFull
    /\ loads = 1
    /\ \A t \in Threads : th[t].reads > 0 /\ th[t].pc = "done" /\ th[t].result.kind = "Ok"

\* C4 (as claimed): under VecIndex the vector index is read from the file
\* once; no later get_vector_index_cache loads the file again.
C4_VectorIndexLoadedOnce == vecLoads <= 1

\* C5: under Never every call of get_full_cache runs load_file once and
\* returns the bytes the file holds at that moment.
C5_NeverReloads ==
    [][\A t \in Threads :
          (cache_policy = "Never" /\ th'[t].reads = th[t].reads + 1)
          => /\ loads' = loads + 1
             /\ th'[t].buf = disk[xdb_filepath]]_vars

\* the vector index cell was read before the file changed, the payload after
C5_Witness ==
    \E t \in Threads :
        /\ cache_policy = "Never"
        /\ th[t].pc = "done"
        /\ th[t].result.kind = "Ok"
        /\ th[t].buf = TheFile
        /\ th[t].end_ptr # CellPtrs(TheFile, th[t].ip)[2]

\* C7: a call whose address the normalizer rejects returns that error and
\* changes nothing of the cache: no load, the cell as it was.
C7_RejectedInputLeavesCache ==
    [][\A t \in Threads :
          (th[t].pc = "idle" /\ th'[t].pc # "idle" /\ ~to_u32_ip(th'[t].input).ok)
          => /\ th'[t].pc = "done"
             /\ th'[t].result = Err("InvalidIpFormat")
             /\ cache' = cache
             /\ loads' = loads
             /\ th'[t].qloads = 0 /\ th'[t].reads = 0]_vars

C7_Witness ==
    \E t \in Threads :
        /\ th[t].pc = "done"
        /\ th[t].result = Err("InvalidIpFormat")
        /\ cache_policy = "Full"
        /\ cache.state = "uninit"
        /\ loads = 0

\* C8: an initialized cell never changes, and under Full every call of
\* get_full_cache returns its bytes without a load, whatever the file holds
\* now and whatever path searcher_init has set since.
C8_CacheImmutable ==
    [][cache.state = "init" =>
          /\ cache' = cache
          /\ \A t \in Threads :
               (cache_policy = "Full" /\ th'[t].reads = th[t].reads + 1)
               => (th'[t].buf = cache.bytes /\ loads' = loads)]_vars

C8_Witness ==
    \E t \in Threads :
        /\ cache_policy = "Full"
        /\ cache.state = "init"
        /\ xdb_filepath # default_detect_xdb_file
        /\ th[t].sawStale
        /\ th[t].qloads = 0
        /\ th[t].pc = "done"
        /\ th[t].result = Ok(PayloadOf(cache.bytes, RecordAt(cache.bytes, th[t].ip, 0)))

\* C10 (of the searcher, SpecSearch): a query under a policy other than Full
\* loads the file once for the vector index cell, once per iteration and once
\* for the payload: iters + 2 loads when it matched, iters + 1 when it ended
\* unmatched.
C10_LoadsPerQuery ==
    \A t \in Threads :
        (Looked(t) /\ th[t].nonfull /\ th[t].reads > 0) =>
            /\ (th[t].result.kind = "Ok" \/ th[t].result = Err("FromUtf8Error"))
               => th[t].qloads = th[t].iters + 2
            /\ th[t].result = Err("not matched") => th[t].qloads = th[t].iters + 1

C10_Witness ==
    \E t \in Threads :
        /\ Looked(t)
        /\ th[t].nonfull
        /\ th[t].result.kind = "Ok"
        /\ th[t].iters = 2
        /\ th[t].qloads = 4

====
